---- MODULE Spec2Model ----
(***************************************************************************)
(* A model of the Chinese New Year blackjack solver: the Hand valuation    *)
(* of blackjack_game.py, compare_hands, and the expected-value recursion   *)
(* of probability_calculator.py as BlackjackSolver.solve_hand drives it.   *)
(*                                                                         *)
(* Cards are records [rank, suit]; a Hand is the sequence self.cards.      *)
(* Python floats are modelled as exact rationals scaled to integers.       *)
(***************************************************************************)
EXTENDS Integers, Sequences, FiniteSets, TLC

(***************************************************************************)
(* Ranks, suits and the deck (blackjack_game.py)                           *)
(***************************************************************************)
ranks == <<"A", "2", "3", "4", "5", "6", "7", "8", "9", "10", "J", "Q", "K">>

suits == <<"S", "H", "D", "C">>

RankSet == {ranks[i] : i \in 1..Len(ranks)}

SuitSet == {suits[i] : i \in 1..Len(suits)}

Card(rank, suit) == [rank |-> rank, suit |-> suit]

\* create_deck: the 52-card list [Card(rank, suit) for rank in ranks for suit in suits].
\* A list of cards that is a sublist of the deck is kept grouped by rank: L[rank] is
\* the sequence of suits of its rank-`rank' cards, in list order (the deck is
\* rank-major, so the grouping loses nothing).
\* mutant: the rank '10' is missing from the list of ranks
create_deck_no_ten == [rank \in RankSet |-> IF rank = "10" THEN <<>> ELSE suits]

create_deck == [rank \in RankSet |-> suits]

\* int(card.rank) for the numeric rank strings
IntOfRank ==
    [r \in {"2", "3", "4", "5", "6", "7", "8", "9", "10"} |->
        CASE r = "2" -> 2 [] r = "3" -> 3 [] r = "4" -> 4 [] r = "5" -> 5
          [] r = "6" -> 6 [] r = "7" -> 7 [] r = "8" -> 8 [] r = "9" -> 9
          [] r = "10" -> 10]

\* len(player_hand.cards) >= 5: a hand of five cards takes no further card
HandLimit == 5

\* depth > 2: the recursion depth limit of calculate_hit_ev
DepthLimit == 2

\* round(x, 4): results are rounded to four decimals
RoundDigits == 4

\* expected values are kept in thousandths (bust probabilities are hundredths,
\* win estimates tenths): 1.0 is EvUnit
EvUnit == 10 * 100

(***************************************************************************)
(* Generic helpers on sequences and sets of integers                       *)
(***************************************************************************)
RECURSIVE SumSeq(_)
SumSeq(s) == IF s = <<>> THEN 0 ELSE Head(s) + SumSeq(Tail(s))

SetMax(S) == CHOOSE x \in S : \A y \in S : y <= x

SetMin(S) == CHOOSE x \in S : \A y \in S : x <= y

\* sorted(list(values)): the members of S in increasing order
RECURSIVE sorted(_)
sorted(S) == IF S = {} THEN <<>> ELSE <<SetMin(S)>> \o sorted(S \ {SetMin(S)})

\* max(a, b) of two numbers
max2(a, b) == IF a > b THEN a ELSE b

SeqToSet(s) == {s[i] : i \in 1..Len(s)}

\* [v for v in values if v <= 21], max(...) and min(...) of a list
non_bust_of(values) == SelectSeq(values, LAMBDA v : v <= 21)

max(values) == SetMax(SeqToSet(values))

min(values) == SetMin(SeqToSet(values))

(***************************************************************************)
(* class Hand (blackjack_game.py): a hand is its list self.cards           *)
(***************************************************************************)
is_ban_ban(cards) ==
    Len(cards) = 2 /\ \A i \in 1..Len(cards) : cards[i].rank = "A"

\* mutant: the number of cards is not looked at
is_blackjack_any_size(cards) ==
    IF Len(cards) < 2 THEN <<FALSE, FALSE>>
    ELSE IF (\E i \in 1..Len(cards) : cards[i].rank = "A")
            /\ (\E i \in 1..Len(cards) : cards[i].rank \in {"10", "J", "Q", "K"})
    THEN <<TRUE, cards[1].suit = cards[2].suit>>
    ELSE <<FALSE, FALSE>>

\* mutant: the suits are never compared
is_blackjack_unsuited(cards) ==
    IF Len(cards) # 2 THEN <<FALSE, FALSE>>
    ELSE <<(\E i \in 1..Len(cards) : cards[i].rank = "A")
           /\ (\E i \in 1..Len(cards) : cards[i].rank \in {"10", "J", "Q", "K"}), FALSE>>

\* returns <<is_blackjack, is_suited>>
is_blackjack(cards) ==
    IF Len(cards) # 2 THEN <<FALSE, FALSE>>
    ELSE LET has_ace == \E i \in 1..Len(cards) : cards[i].rank = "A"
             has_ten == \E i \in 1..Len(cards) : cards[i].rank \in {"10", "J", "Q", "K"}
         IN IF has_ace /\ has_ten
            THEN <<TRUE, cards[1].suit = cards[2].suit>>
            ELSE <<FALSE, FALSE>>

is_triple_sevens(cards) ==
    Len(cards) = 3 /\ \A i \in 1..Len(cards) : cards[i].rank = "7"

get_ace_count(cards) == Len(SelectSeq(cards, LAMBDA c : c.rank = "A"))

get_card_value(card) ==
    IF card.rank = "A" THEN 0
    ELSE IF card.rank \in {"J", "Q", "K"} THEN 10
    ELSE IntOfRank[card.rank]

ace_values_per_ace(num_cards) ==
    IF num_cards = 2 THEN {1, 10, 11}
    ELSE IF num_cards = 3 THEN {1, 10}
    ELSE {1}

\* the sorted list of possible hand values
get_possible_values(cards) ==
    LET num_cards == Len(cards)
        ace_count == get_ace_count(cards)
        non_aces == SelectSeq(cards, LAMBDA c : c.rank # "A")
        non_ace_value == SumSeq([i \in 1..Len(non_aces) |-> get_card_value(non_aces[i])])
        per_ace == ace_values_per_ace(num_cards)
        values == IF ace_count = 1
                  THEN {non_ace_value + val : val \in per_ace}
                  ELSE IF ace_count = 2
                  THEN {non_ace_value + val1 + val2 : val1 \in per_ace, val2 \in per_ace}
                  ELSE {non_ace_value + ace_count}
    IN IF ace_count = 0 THEN <<non_ace_value>> ELSE sorted(values)

\* mutant: the largest value, bust or not
get_best_value_max_all(cards) == max(get_possible_values(cards))

get_best_value(cards) ==
    LET values == get_possible_values(cards)
        non_bust == non_bust_of(values)
    IN IF non_bust # <<>> THEN max(non_bust) ELSE min(values)

\* mutant: any() for all()
is_bust_any(cards) ==
    \E i \in 1..Len(get_possible_values(cards)) : get_possible_values(cards)[i] > 21

is_bust(cards) ==
    LET values == get_possible_values(cards)
    IN \A i \in 1..Len(values) : values[i] > 21

is_five_card_charlie(cards) == Len(cards) = 5 /\ ~is_bust(cards)

get_payout_multiplier(cards) ==
    IF is_bust(cards) THEN 0
    ELSE IF is_ban_ban(cards) THEN 3
    ELSE IF is_triple_sevens(cards) THEN 7
    ELSE IF is_blackjack(cards)[1] THEN (IF is_blackjack(cards)[2] THEN 3 ELSE 2)
    ELSE IF is_five_card_charlie(cards) THEN 2
    ELSE 1

\* mutant: the dealer's bust is looked at before the player's
compare_hands_dealer_first(player_hand, dealer_hand) ==
    IF is_bust(dealer_hand) THEN "win"
    ELSE IF is_bust(player_hand) THEN "lose"
    ELSE IF get_best_value(player_hand) > get_best_value(dealer_hand) THEN "win"
    ELSE IF get_best_value(player_hand) < get_best_value(dealer_hand) THEN "lose"
    ELSE "push"

\* mutant: >= for >, so that equal totals are a win
compare_hands_ge(player_hand, dealer_hand) ==
    IF is_bust(player_hand) THEN "lose"
    ELSE IF is_bust(dealer_hand) THEN "win"
    ELSE IF get_best_value(player_hand) >= get_best_value(dealer_hand) THEN "win"
    ELSE "lose"

\* 'win', 'lose' or 'push'
compare_hands(player_hand, dealer_hand) ==
    LET player_bust == is_bust(player_hand)
        dealer_bust == is_bust(dealer_hand)
    IN IF player_bust THEN "lose"
       ELSE IF dealer_bust THEN "win"
       ELSE LET player_value == get_best_value(player_hand)
                dealer_value == get_best_value(dealer_hand)
            IN IF player_value > dealer_value THEN "win"
               ELSE IF player_value < dealer_value THEN "lose"
               ELSE "push"

(***************************************************************************)
(* class ProbabilityCalculator (probability_calculator.py)                 *)
(***************************************************************************)
\* len(remaining_cards)
RECURSIVE CountFrom(_, _)
CountFrom(L, i) == IF i > Len(ranks) THEN 0 ELSE Len(L[ranks[i]]) + CountFrom(L, i + 1)

len(L) == CountFrom(L, 1)

\* rank_counts: the ranks still present, each with its number of cards
rank_counts(remaining_cards) == {rank \in RankSet : Len(remaining_cards[rank]) > 0}

\* list.remove(card) guarded by `card in remaining'
remove_card(remaining, card) ==
    [remaining EXCEPT ![card.rank] = SelectSeq(@, LAMBDA s : s # card.suit)]

\* get_remaining_cards: a copy of the deck without the known cards
RECURSIVE remove_known(_, _)
remove_known(remaining, known_cards) ==
    IF known_cards = <<>> THEN remaining
    ELSE remove_known(remove_card(remaining, Head(known_cards)), Tail(known_cards))

get_remaining_cards(the_deck, known_cards) == remove_known(the_deck, known_cards)

\* mutant: `remaining = self.deck', so the known cards leave the deck itself
deck_mutated_in_place(the_deck, known_cards) == remove_known(the_deck, known_cards)

\* self.deck after get_remaining_cards: `remaining = self.deck.copy()', so the
\* removals act on the copy and the calculator's deck is as it was
deck_after_get_remaining(the_deck, known_cards) == the_deck

\* the loop body of calculate_hit_ev / calculate_dealer_bust_probability:
\* test_card = Card(rank, Suit.SPADES); new_hand = Hand(cards.copy()) + test_card
new_hand_of(cards, rank) == Append(cards, Card(rank, "S"))

\* mutant: the drawn card is not popped from the copy
new_remaining_kept(remaining_cards, rank) == remaining_cards

\* mutant: the loop that pops the drawn card has no break, so every card of
\* the rank is popped
new_remaining_no_break(remaining_cards, rank) ==
    [remaining_cards EXCEPT ![rank] = <<>>]

\* new_remaining = remaining_cards.copy() with the first card of that rank popped
new_remaining_of(remaining_cards, rank) ==
    [remaining_cards EXCEPT ![rank] = Tail(@)]

\* _estimate_dealer_bust_probability, in hundredths
bust_probs ==
    [rank \in RankSet |->
        CASE rank = "A" -> 12 [] rank = "2" -> 35 [] rank = "3" -> 37 [] rank = "4" -> 40
          [] rank = "5" -> 42 [] rank = "6" -> 42 [] rank = "7" -> 26 [] rank = "8" -> 24
          [] rank = "9" -> 23 [] OTHER -> 21]

estimate_dealer_bust_probability(upcard) == bust_probs[upcard.rank]

\* mutant: -8.0 for -0.8 in the first base probability
estimate_dealer_beats_player_typo(upcard, player_value) ==
    LET upcard_value == IF upcard.rank = "A" THEN 11
                        ELSE IF upcard.rank \in {"10", "J", "Q", "K"} THEN 10
                        ELSE IntOfRank[upcard.rank]
        base_prob == IF player_value >= 20 THEN -80
                     ELSE IF player_value >= 18 THEN -4
                     ELSE IF player_value >= 17 THEN -2
                     ELSE IF player_value >= 14 THEN 0
                     ELSE 3
    IN IF upcard_value >= 9 THEN base_prob + 3
       ELSE IF upcard_value >= 7 THEN base_prob + 1
       ELSE base_prob - 2

\* _estimate_dealer_beats_player, in tenths
estimate_dealer_beats_player(upcard, player_value) ==
    LET upcard_value == IF upcard.rank = "A" THEN 11
                        ELSE IF upcard.rank \in {"10", "J", "Q", "K"} THEN 10
                        ELSE IntOfRank[upcard.rank]
        base_prob == IF player_value >= 20 THEN -8
                     ELSE IF player_value >= 18 THEN -4
                     ELSE IF player_value >= 17 THEN -2
                     ELSE IF player_value >= 14 THEN 0
                     ELSE 3
    IN IF upcard_value >= 9 THEN base_prob + 3
       ELSE IF upcard_value >= 7 THEN base_prob + 1
       ELSE base_prob - 2

\* calculate_stand_ev, in thousandths:
\* ev = bust * 1.0 + (1 - bust) * dealer_win_prob; return ev * player_multiplier
calculate_stand_ev(player_hand, dealer_upcard, remaining_cards) ==
    IF is_bust(player_hand) THEN -EvUnit
    ELSE LET player_multiplier == get_payout_multiplier(player_hand)
             player_value == get_best_value(player_hand)
             dealer_bust_prob == estimate_dealer_bust_probability(dealer_upcard)
             dealer_win_prob == estimate_dealer_beats_player(dealer_upcard, player_value)
             ev == 10 * dealer_bust_prob + (100 - dealer_bust_prob) * dealer_win_prob
         IN ev * player_multiplier

\* total * (total - 1) * ... over the `levels' draws still possible below a node
RECURSIVE Falling(_, _)
Falling(total, levels) ==
    IF levels <= 0 \/ total <= 0 THEN 1 ELSE total * Falling(total - 1, levels - 1)

\* the draws a hand can still take before it holds HandLimit cards
LevelsLeft(cards) == IF Len(cards) >= HandLimit THEN 0 ELSE HandLimit - Len(cards)

\* the denominator of every value computed at a node: thousandths over the
\* falling product of the card totals of the levels below
EvScale(cards, remaining_cards) ==
    EvUnit * Falling(len(remaining_cards), LevelsLeft(cards))

\* calculate_hit_ev, as an integer over EvScale(player_hand, remaining_cards).
\* hit_ev_from(.., i) is the function at its loop: the sum of prob * value over the
\* ranks from index i on; index 0 is the entry of the function, before the loop.
RECURSIVE hit_ev_from(_, _, _, _, _)
RECURSIVE branch_value(_, _, _, _)

\* mutant: the value of hitting again, whatever standing is worth
branch_value_hit_only(new_hand, dealer_upcard, new_remaining, depth) ==
    IF is_bust(new_hand) THEN (-EvUnit) * Falling(len(new_remaining), LevelsLeft(new_hand))
    ELSE IF is_five_card_charlie(new_hand)
    THEN get_payout_multiplier(new_hand) * EvUnit
         * Falling(len(new_remaining), LevelsLeft(new_hand))
    ELSE hit_ev_from(new_hand, dealer_upcard, new_remaining, depth + 1, 0)

\* what one iteration of the loop adds to ev for its new_hand, before the
\* weight prob: an integer over EvScale(new_hand, new_remaining)
branch_value(new_hand, dealer_upcard, new_remaining, depth) ==
    IF is_bust(new_hand) THEN (-EvUnit) * Falling(len(new_remaining), LevelsLeft(new_hand))
    ELSE IF is_five_card_charlie(new_hand)
    THEN get_payout_multiplier(new_hand) * EvUnit
         * Falling(len(new_remaining), LevelsLeft(new_hand))
    ELSE max2(calculate_stand_ev(new_hand, dealer_upcard, new_remaining)
                  * Falling(len(new_remaining), LevelsLeft(new_hand)),
              hit_ev_from(new_hand, dealer_upcard, new_remaining, depth + 1, 0))

hit_ev_from(player_hand, dealer_upcard, remaining_cards, depth, i) ==
    LET total_cards == len(remaining_cards)
        below == Falling(total_cards, LevelsLeft(player_hand))
        rank == ranks[i]
        count == Len(remaining_cards[rank])
        term == count * branch_value(new_hand_of(player_hand, rank), dealer_upcard,
                                     new_remaining_of(remaining_cards, rank), depth)
    IN IF i = 0
       THEN IF is_bust(player_hand) THEN (-EvUnit) * below
            ELSE IF Len(player_hand) >= HandLimit
            THEN calculate_stand_ev(player_hand, dealer_upcard, remaining_cards) * below
            ELSE IF depth > DepthLimit
            THEN calculate_stand_ev(player_hand, dealer_upcard, remaining_cards) * below
            ELSE IF total_cards = 0 THEN (-EvUnit) * below
            ELSE hit_ev_from(player_hand, dealer_upcard, remaining_cards, depth, 1)
       ELSE IF i > Len(ranks) THEN 0
       ELSE (IF rank \in rank_counts(remaining_cards) THEN term ELSE 0)
            + hit_ev_from(player_hand, dealer_upcard, remaining_cards, depth, i + 1)

calculate_hit_ev(player_hand, dealer_upcard, remaining_cards, depth) ==
    hit_ev_from(player_hand, dealer_upcard, remaining_cards, depth, 0)

\* mutant: the comparison is the wrong way round
choose_action_swapped(stand_ev, hit_ev) ==
    IF hit_ev < stand_ev THEN <<"hit", stand_ev, hit_ev>> ELSE <<"stand", stand_ev, hit_ev>>

\* get_optimal_action: <<action, stand_ev, hit_ev>>; both values are integers over
\* the denominator EvScale(player_hand, remaining_cards)
choose_action(stand_ev, hit_ev) ==
    IF hit_ev > stand_ev THEN <<"hit", stand_ev, hit_ev>> ELSE <<"stand", stand_ev, hit_ev>>

optimal_action_on(player_hand, dealer_upcard, remaining_cards, scale, below) ==
    IF is_bust(player_hand) THEN <<"bust", -scale, -scale>>
    ELSE IF is_ban_ban(player_hand) \/ is_triple_sevens(player_hand)
    THEN <<"stand", get_payout_multiplier(player_hand) * scale, 0>>
    ELSE IF is_blackjack(player_hand)[1]
    THEN <<"stand", get_payout_multiplier(player_hand) * scale, 0>>
    ELSE IF is_five_card_charlie(player_hand)
    THEN <<"stand", get_payout_multiplier(player_hand) * scale, 0>>
    ELSE IF Len(player_hand) >= HandLimit
    THEN <<"stand", calculate_stand_ev(player_hand, dealer_upcard, remaining_cards) * below, 0>>
    ELSE choose_action(
            calculate_stand_ev(player_hand, dealer_upcard, remaining_cards) * below,
            calculate_hit_ev(player_hand, dealer_upcard, remaining_cards, 0))

get_optimal_action(the_deck, player_hand, dealer_upcard, known_cards) ==
    optimal_action_on(player_hand, dealer_upcard,
                      get_remaining_cards(the_deck, known_cards),
                      EvScale(player_hand, get_remaining_cards(the_deck, known_cards)),
                      Falling(len(get_remaining_cards(the_deck, known_cards)),
                              LevelsLeft(player_hand)))

(***************************************************************************)
(* class BlackjackSolver (solver.py)                                       *)
(***************************************************************************)
\* round(x, 4) of x = num/den, in ten-thousandths: the nearest multiple of 0.0001,
\* an exact half going to the even neighbour.  Digits are taken one at a time so
\* that no intermediate product leaves the 32-bit range.
RECURSIVE Digits(_, _, _, _)
Digits(acc, rem, den, n) ==
    IF n = 0 THEN <<acc, rem>>
    ELSE Digits(acc * 10 + ((rem * 10) \div den), (rem * 10) % den, den, n - 1)

round_half_even(floor4, rest, den) ==
    IF 2 * rest > den THEN floor4 + 1
    ELSE IF 2 * rest < den THEN floor4
    ELSE IF floor4 % 2 = 0 THEN floor4 ELSE floor4 + 1

round_digits(d, den) == round_half_even(d[1], d[2], den)

round4(num, den) == round_digits(Digits(num \div den, num % den, den, RoundDigits), den)

\* known_cards = player_cards + [dealer_upcard]
known_cards_of(player_cards, dealer_upcard) == Append(player_cards, dealer_upcard)

\* solve_hand: the entries of the result dictionary that depend on the computation
result_of(player_hand, r, den) ==
    [optimal_action |-> r[1],
     stand_ev |-> round4(r[2], den),
     hit_ev |-> round4(r[3], den),
     best_ev |-> round4(max2(r[2], r[3]), den),
     payout_multiplier |-> get_payout_multiplier(player_hand)]

solve_hand(the_deck, player_cards, dealer_upcard) ==
    result_of(player_cards,
              get_optimal_action(the_deck, player_cards, dealer_upcard,
                                 known_cards_of(player_cards, dealer_upcard)),
              EvScale(player_cards,
                      get_remaining_cards(the_deck,
                                          known_cards_of(player_cards, dealer_upcard))))

(***************************************************************************)
(* State                                                                   *)
(***************************************************************************)
VARIABLES
    deck,           \* ProbabilityCalculator.deck, made once by __init__
    request,        \* <<>> or <<the arguments of the solve_hand call in progress or done>>
    frames,         \* the active calculate_hit_ev calls, outermost first
    drawn,          \* <<>> or <<new_hand and new_remaining of the last loop iteration>>
    dealer_frames,  \* the active calculate_dealer_bust_probability calls
    result,         \* <<>> or <<the dictionary the last solve_hand call returned>>
    log,            \* the solve_hand calls of a session: their arguments and results
    cards,          \* Hand.cards of a hand under construction
    dealer_cards,   \* Hand.cards of the hand it is compared with
    evaluated,      \* <<>> or <<what the Hand methods returned for cards>>
    input_line,     \* the card strings of the last line typed for the player's hand
    input_cards,    \* <<>> or <<the cards get_player_hand returned>>
    input_dealer,   \* <<>> or <<the card get_dealer_card returned>>
    raised,         \* <<>> or <<the exception the last input raised>>
    pair_index,     \* <<>> or <<i, j>>: the pair of deck positions solveAll is at
    solutions,      \* the mapping solveAll builds: unordered pair -> entry
    writes,         \* how many entries solveAll has written
    node,           \* <<>> or <<the hands and shoe of the dealerValue call being looked at>>
    returned,       \* <<>> or <<the value that call returned>>
    stack,          \* the calculate_hit_ev calls of a run, each with its place in its loop
    cache,          \* the shared memoization cache: state key -> value
    workers,        \* per worker, the dealerValue calls it has in progress
    written,        \* every (key, value) a worker has written to the cache
    finished        \* per worker, <<>> or <<its task and the value it got for it>>

vars == <<deck, request, frames, drawn, dealer_frames, result, log,
          cards, dealer_cards, evaluated,
          input_line, input_cards, input_dealer, raised,
          pair_index, solutions, writes, node, returned, stack,
          cache, workers, written, finished>>

solver_vars == <<deck, request, frames, drawn, dealer_frames, result, log>>

hand_vars == <<cards, dealer_cards, evaluated>>

input_vars == <<input_line, input_cards, input_dealer, raised>>

all_vars == <<pair_index, solutions, writes>>

exact_vars == <<node, returned>>

conc_vars == <<cache, workers, written, finished>>

\* the state of the other front ends, which the solver and the Hand methods leave alone
ext_vars == <<input_vars, all_vars, exact_vars, stack, conc_vars>>

(***************************************************************************)
(* Bounds of the model                                                     *)
(***************************************************************************)
\* the order in which ranks enter the bounded input sets
RankSample == <<"A", "6", "K", "7", "10", "2", "9", "5", "Q", "3", "8", "4", "J">>

\* the order in which dealer upcard ranks enter them
UpcardSample == <<"10", "6", "A", "8", "2", "9", "4", "7", "K", "3", "5", "J", "Q">>

\* ranks of the player's two starting cards in a solve_hand call
NumPlayerRanks == 3

\* ranks of the dealer's upcard in a solve_hand call
NumUpcardRanks == 2

\* ranks of the cards a hand is built from when the Hand methods are exercised
NumHandRanks == 5

\* cards per hand when two hands are compared
MaxCompareCards == 3

\* solve_hand calls in one session of a BlackjackSolver
MaxCalls == 3

\* the workers that evaluate over the one cache: two, the fewest that can race
Workers == {"w1", "w2"}

Prefix(sample, n) == {sample[i] : i \in 1..(IF n > Len(sample) THEN Len(sample) ELSE n)}

\* legal solve_hand arguments: two distinct player cards and a dealer upcard that
\* is neither of them (the first card a spade, the second a spade or a heart,
\* the upcard a diamond)
Request(player_cards, dealer_upcard) ==
    [player_cards |-> player_cards, dealer_upcard |-> dealer_upcard]

Requests ==
    {req \in {Request(<<Card(r1, "S"), Card(r2, s2)>>, Card(r3, "D")) :
                 r1 \in Prefix(RankSample, NumPlayerRanks), r2 \in Prefix(RankSample, NumPlayerRanks),
                 s2 \in {"S", "H"}, r3 \in Prefix(UpcardSample, NumUpcardRanks)} :
        req.player_cards[1] # req.player_cards[2]}

(***************************************************************************)
(* One solve_hand call and the recursion below it                          *)
(***************************************************************************)
Frame(player_hand, remaining_cards, depth) ==
    [player_hand |-> player_hand, remaining_cards |-> remaining_cards, depth |-> depth]

Top == frames[Len(frames)]

\* get_optimal_action returns before calculate_hit_ev is called
returns_early(player_hand) ==
    \/ is_bust(player_hand)
    \/ is_ban_ban(player_hand) \/ is_triple_sevens(player_hand)
    \/ is_blackjack(player_hand)[1]
    \/ is_five_card_charlie(player_hand)
    \/ Len(player_hand) >= HandLimit

\* calculate_hit_ev returns before its loop
hit_base_case(f) ==
    \/ is_bust(f.player_hand)
    \/ Len(f.player_hand) >= HandLimit
    \/ f.depth > DepthLimit
    \/ len(f.remaining_cards) = 0

\* the loop body recurses on new_hand
hit_recurses(new_hand) == ~is_bust(new_hand) /\ ~is_five_card_charlie(new_hand)

\* mutant: new_hand = Hand(player_hand.cards), which shares the caller's list
hand_shared(player_hand, rank) == new_hand_of(player_hand, rank)

\* the caller's hand after a loop iteration: new_hand is made of a copy of the
\* caller's list of cards, so add_card leaves the caller's hand alone
hand_after_iteration(player_hand, rank) == player_hand

\* mutant: new_remaining = remaining_cards, the caller's own list
remaining_shared(remaining_cards, rank) == new_remaining_of(remaining_cards, rank)

\* the caller's remaining cards after a loop iteration: the pop is on
\* remaining_cards.copy()
remaining_after_iteration(remaining_cards, rank) == remaining_cards

\* the frame of calculate_hit_ev once the iteration for a rank is done
frame_after_iteration(f, rank) ==
    [f EXCEPT !.player_hand = hand_after_iteration(f.player_hand, rank),
              !.remaining_cards = remaining_after_iteration(f.remaining_cards, rank)]

\* the frame of calculate_dealer_bust_probability once the iteration for a
\* rank is done
dealer_frame_after_iteration(f, rank) ==
    [f EXCEPT !.dealer_hand = hand_after_iteration(f.dealer_hand, rank),
              !.remaining_cards = remaining_after_iteration(f.remaining_cards, rank)]

Init ==
    /\ deck = create_deck
    /\ request = <<>>
    /\ frames = <<>>
    /\ drawn = <<>>
    /\ dealer_frames = <<>>
    /\ result = <<>>
    /\ log = <<>>
    /\ cards = <<>>
    /\ dealer_cards = <<>>
    /\ evaluated = <<>>
    /\ input_line = <<>>
    /\ input_cards = <<>>
    /\ input_dealer = <<>>
    /\ raised = <<>>
    /\ pair_index = <<>>
    /\ solutions = <<>>
    /\ writes = 0
    /\ node = <<>>
    /\ returned = <<>>
    /\ stack = <<>>
    /\ cache = <<>>
    /\ workers = [w \in Workers |-> <<>>]
    /\ written = {}
    /\ finished = [w \in Workers |-> <<>>]

\* solve_hand is called: get_optimal_action takes the remaining cards and either
\* returns at once or calls calculate_hit_ev at depth 0
SolveHand(req) ==
    /\ request = <<>>
    /\ request' = <<req>>
    /\ LET player_hand == req.player_cards
           known_cards == known_cards_of(req.player_cards, req.dealer_upcard)
           remaining_cards == get_remaining_cards(deck, known_cards)
       IN IF returns_early(player_hand)
          THEN /\ frames' = <<>>
               /\ result' = <<solve_hand(deck, req.player_cards, req.dealer_upcard)>>
          ELSE /\ frames' = <<Frame(player_hand, remaining_cards, 0)>>
               /\ result' = <<>>
    /\ deck' = deck_after_get_remaining(deck, known_cards_of(req.player_cards,
                                                             req.dealer_upcard))
    /\ drawn' = <<>>
    /\ UNCHANGED <<dealer_frames, log, hand_vars, ext_vars>>

\* one iteration of the loop of calculate_hit_ev, for a rank still present
HitDraw(rank) ==
    /\ frames # <<>>
    /\ ~hit_base_case(Top)
    /\ rank \in rank_counts(Top.remaining_cards)
    /\ LET new_hand == new_hand_of(Top.player_hand, rank)
           new_remaining == new_remaining_of(Top.remaining_cards, rank)
       IN /\ drawn' = <<[new_hand |-> new_hand, new_remaining |-> new_remaining]>>
          /\ frames' = IF hit_recurses(new_hand)
                       THEN Append([frames EXCEPT ![Len(frames)] =
                                        frame_after_iteration(Top, rank)],
                                   Frame(new_hand, new_remaining, Top.depth + 1))
                       ELSE [frames EXCEPT ![Len(frames)] = frame_after_iteration(Top, rank)]
    /\ UNCHANGED <<deck, request, dealer_frames, result, log, hand_vars, ext_vars>>

\* calculate_hit_ev returns to its caller; the outermost call returns to
\* get_optimal_action, and solve_hand returns the result
HitReturn ==
    /\ frames # <<>>
    /\ frames' = SubSeq(frames, 1, Len(frames) - 1)
    /\ drawn' = <<>>
    /\ result' = IF Len(frames) = 1
                 THEN <<solve_hand(deck, request[1].player_cards, request[1].dealer_upcard)>>
                 ELSE result
    /\ UNCHANGED <<deck, request, dealer_frames, log, hand_vars, ext_vars>>

(***************************************************************************)
(* calculate_dealer_bust_probability: the dealer's draws                   *)
(***************************************************************************)
\* the dealer stands on 17
DealerStands == 17

DealerFrame(dealer_hand, remaining_cards) ==
    [dealer_hand |-> dealer_hand, remaining_cards |-> remaining_cards]

DealerTop == dealer_frames[Len(dealer_frames)]

\* mutant: the five-card check is missing
dealer_base_case_no_limit(f) ==
    \/ is_bust(f.dealer_hand)
    \/ get_best_value(f.dealer_hand) >= DealerStands
    \/ len(f.remaining_cards) = 0

\* calculate_dealer_bust_probability returns before its loop
dealer_base_case(f) ==
    \/ is_bust(f.dealer_hand)
    \/ Len(f.dealer_hand) >= HandLimit
    \/ get_best_value(f.dealer_hand) >= DealerStands
    \/ len(f.remaining_cards) = 0

\* the dealer's hand is played out from the upcard against the cards that
\* remained when the player's hand was solved
DealerBustCall ==
    /\ request # <<>> /\ result # <<>>
    /\ dealer_frames = <<>>
    /\ LET known_cards == known_cards_of(request[1].player_cards, request[1].dealer_upcard)
       IN dealer_frames' = <<DealerFrame(<<request[1].dealer_upcard>>,
                                         get_remaining_cards(deck, known_cards))>>
    /\ drawn' = <<>>
    /\ UNCHANGED <<deck, request, frames, result, log, hand_vars, ext_vars>>

\* one iteration of the loop, for a rank still present
DealerDraw(rank) ==
    /\ dealer_frames # <<>>
    /\ ~dealer_base_case(DealerTop)
    /\ rank \in rank_counts(DealerTop.remaining_cards)
    /\ LET new_hand == new_hand_of(DealerTop.dealer_hand, rank)
           new_remaining == new_remaining_of(DealerTop.remaining_cards, rank)
       IN /\ drawn' = <<[new_hand |-> new_hand, new_remaining |-> new_remaining]>>
          /\ dealer_frames' =
                IF is_bust(new_hand)
                THEN [dealer_frames EXCEPT ![Len(dealer_frames)] =
                          dealer_frame_after_iteration(DealerTop, rank)]
                ELSE Append([dealer_frames EXCEPT ![Len(dealer_frames)] =
                                 dealer_frame_after_iteration(DealerTop, rank)],
                            DealerFrame(new_hand, new_remaining))
    /\ UNCHANGED <<deck, request, frames, result, log, hand_vars, ext_vars>>

DealerReturn ==
    /\ dealer_frames # <<>>
    /\ dealer_frames' = SubSeq(dealer_frames, 1, Len(dealer_frames) - 1)
    /\ drawn' = <<>>
    /\ UNCHANGED <<deck, request, frames, result, log, hand_vars, ext_vars>>

Next ==
    \/ \E req \in Requests : SolveHand(req)
    \/ \E rank \in RankSet : HitDraw(rank)
    \/ HitReturn
    \/ DealerBustCall
    \/ \E rank \in RankSet : DealerDraw(rank)
    \/ DealerReturn

Spec == Init /\ [][Next]_vars

(***************************************************************************)
(* A session: one BlackjackSolver serving several solve_hand calls         *)
(***************************************************************************)
\* the two-card example hands of solver.main()
SessionRequests ==
    {Request(<<Card("A", "S"), Card("A", "H")>>, Card("10", "D")),
     Request(<<Card("A", "H"), Card("K", "H")>>, Card("7", "C")),
     Request(<<Card("A", "S"), Card("Q", "H")>>, Card("9", "D")),
     Request(<<Card("10", "S"), Card("6", "H")>>, Card("10", "C")),
     Request(<<Card("A", "S"), Card("6", "H")>>, Card("5", "D"))}

\* a whole solve_hand call, from the arguments to the returned dictionary
SessionSolve(req) ==
    /\ Len(log) < MaxCalls
    /\ log' = Append(log, [request |-> req,
                           result |-> solve_hand(deck, req.player_cards, req.dealer_upcard)])
    /\ deck' = deck_after_get_remaining(deck, known_cards_of(req.player_cards,
                                                             req.dealer_upcard))
    /\ UNCHANGED <<request, frames, drawn, dealer_frames, result, hand_vars, ext_vars>>

SessionNext == \E req \in SessionRequests : SessionSolve(req)

SpecSession == Init /\ [][SessionNext]_vars

(***************************************************************************)
(* The Hand methods on the hands add_card can build                        *)
(***************************************************************************)
\* the first two cards of a hand are dealt from two suits; a later card is the
\* spade the probability calculator appends
HandCards(n) ==
    {Card(rank, suit) : rank \in Prefix(RankSample, NumHandRanks),
                        suit \in IF n < 2 THEN {"S", "H"} ELSE {"S"}}

\* Hand.add_card
add_card(card) ==
    /\ Len(cards) < HandLimit
    /\ cards' = Append(cards, card)
    /\ evaluated' = <<>>
    /\ UNCHANGED <<dealer_cards, solver_vars, ext_vars>>

\* the value methods of Hand, called on the hand as it stands
Evaluate ==
    /\ evaluated = <<>>
    /\ evaluated' = <<[possible_values |-> get_possible_values(cards),
                       best_value |-> get_best_value(cards),
                       bust |-> is_bust(cards),
                       blackjack |-> is_blackjack(cards),
                       payout_multiplier |-> get_payout_multiplier(cards)]>>
    /\ UNCHANGED <<cards, dealer_cards, solver_vars, ext_vars>>

HandNext ==
    \/ \E card \in HandCards(Len(cards)) : add_card(card)
    \/ Evaluate

SpecHand == Init /\ [][HandNext]_vars

(***************************************************************************)
(* compare_hands on a player hand and a dealer hand                        *)
(***************************************************************************)
CompareRanks == {"A", "7", "K"}

\* the payout of a stand-off: a win pays the player's multiplier, a push nothing,
\* a loss costs the stake
stand_off_outcome(player_hand, dealer_hand) ==
    LET outcome == compare_hands(player_hand, dealer_hand)
    IN IF outcome = "win" THEN get_payout_multiplier(player_hand)
       ELSE IF outcome = "push" THEN 0
       ELSE -1

DealPlayer(card) ==
    /\ Len(cards) < MaxCompareCards
    /\ cards' = Append(cards, card)
    /\ evaluated' = <<>>
    /\ UNCHANGED <<dealer_cards, solver_vars, ext_vars>>

DealDealer(card) ==
    /\ Len(dealer_cards) < MaxCompareCards
    /\ dealer_cards' = Append(dealer_cards, card)
    /\ evaluated' = <<>>
    /\ UNCHANGED <<cards, solver_vars, ext_vars>>

Compare ==
    /\ evaluated = <<>>
    /\ evaluated' = <<[outcome |-> compare_hands(cards, dealer_cards),
                       payout |-> stand_off_outcome(cards, dealer_cards)]>>
    /\ UNCHANGED <<cards, dealer_cards, solver_vars, ext_vars>>

CompareNext ==
    \/ \E rank \in CompareRanks, suit \in IF Len(cards) < 2 THEN {"S", "H"} ELSE {"S"} :
          DealPlayer(Card(rank, suit))
    \/ \E rank \in CompareRanks : DealDealer(Card(rank, "D"))
    \/ Compare

SpecCompare == Init /\ [][CompareNext]_vars

(***************************************************************************)
(* interactive_solver.py: card strings are typed, parsed and solved        *)
(***************************************************************************)
\* str.upper() on one character
upper(ch) ==
    CASE ch = "a" -> "A"
      [] ch = "j" -> "J"
      [] ch = "q" -> "Q"
      [] ch = "k" -> "K"
      [] ch = "s" -> "S"
      [] ch = "h" -> "H"
      [] ch = "d" -> "D"
      [] ch = "c" -> "C"
      [] OTHER -> ch

\* str.strip(): leading and trailing blanks are dropped
RECURSIVE strip(_)
strip(chars) ==
    IF chars = <<>> THEN chars
    ELSE IF Head(chars) = " " THEN strip(Tail(chars))
    ELSE IF chars[Len(chars)] = " " THEN strip(SubSeq(chars, 1, Len(chars) - 1))
    ELSE chars

\* the string made of a list of characters
RECURSIVE join(_)
join(chars) == IF chars = <<>> THEN "" ELSE Head(chars) \o join(Tail(chars))

\* suit_map of parse_card_input
suit_map == [ch \in {"S", "H", "D", "C"} |-> ch]

valid_ranks == RankSet

\* what a call returns: a value, or the exception it raised
Returned(value) == [raised |-> <<>>, value |-> <<value>>]

Raised(exception) == [raised |-> <<exception>>, value |-> <<>>]

\* parse_card_input on a card string, given as its characters
parse_upper(card_str) ==
    IF card_str = <<>> THEN Raised("IndexError")
    ELSE IF card_str[Len(card_str)] \notin DOMAIN suit_map THEN Raised("ValueError")
    ELSE IF join(SubSeq(card_str, 1, Len(card_str) - 1)) \notin valid_ranks
    THEN Raised("ValueError")
    ELSE Returned(Card(join(SubSeq(card_str, 1, Len(card_str) - 1)),
                       suit_map[card_str[Len(card_str)]]))

parse_card_input(card_str) ==
    parse_upper(strip([i \in 1..Len(card_str) |-> upper(card_str[i])]))

\* cards = [parse_card_input(cs) for cs in card_strings]: the first exception ends it
RECURSIVE parse_all(_, _)
parse_all(card_strings, parsed) ==
    IF card_strings = <<>> THEN Returned(parsed)
    ELSE IF parse_card_input(Head(card_strings)).raised # <<>>
    THEN parse_card_input(Head(card_strings))
    ELSE parse_all(Tail(card_strings),
                   Append(parsed, parse_card_input(Head(card_strings)).value[1]))

\* the card strings a user may type
TokenSample ==
    <<<<"A", "S">>, <<"1", "0", "h">>, <<"k", "s">>, <<"A", "X">>, <<"1", "S">>,
      <<"6", "H">>, <<"1", "1", "D">>, <<"Q", "D">>>>

\* how many of them are tried
NumTokens == 5

\* card strings on one line
MaxTokens == 3

Tokens == Prefix(TokenSample, NumTokens)

RECURSIVE Lines(_)
Lines(n) ==
    IF n = 0 THEN {<<>>}
    ELSE Lines(n - 1) \cup {Append(line, t) : line \in {l \in Lines(n - 1) : Len(l) = n - 1},
                                             t \in Tokens}

not_input_vars == <<deck, request, frames, drawn, dealer_frames, log, hand_vars, all_vars, exact_vars, stack, conc_vars>>

\* one round of the loop of get_player_hand: a line is read and split; a line of
\* fewer than two card strings or one that does not parse is asked for again
get_player_hand(card_strings) ==
    /\ input_cards = <<>>
    /\ input_line' = card_strings
    /\ IF Len(card_strings) < 2
       THEN input_cards' = <<>> /\ raised' = <<>>
       ELSE /\ input_cards' = parse_all(card_strings, <<>>).value
            /\ raised' = parse_all(card_strings, <<>>).raised
    /\ result' = <<>>
    /\ UNCHANGED <<input_dealer, not_input_vars>>

\* one round of the loop of get_dealer_card
get_dealer_card(card_input) ==
    /\ input_cards # <<>> /\ input_dealer = <<>>
    /\ input_dealer' = parse_card_input(card_input).value
    /\ raised' = parse_card_input(card_input).raised
    /\ UNCHANGED <<input_line, input_cards, result, not_input_vars>>

\* main(): result = solver.solve_hand(player_cards, dealer_card)
interactive_solve ==
    /\ input_cards # <<>> /\ input_dealer # <<>>
    /\ result = <<>>
    /\ result' = <<solve_hand(deck, input_cards[1], input_dealer[1])>>
    /\ deck' = deck_after_get_remaining(deck, known_cards_of(input_cards[1], input_dealer[1]))
    /\ UNCHANGED <<request, frames, drawn, dealer_frames, log, hand_vars, input_vars, all_vars, exact_vars, stack, conc_vars>>

\* 'Analyze another hand?' answered yes
analyze_another ==
    /\ result # <<>> /\ input_cards # <<>>
    /\ input_cards' = <<>>
    /\ input_dealer' = <<>>
    /\ UNCHANGED <<input_line, raised, result, not_input_vars>>

InputNext ==
    \/ \E card_strings \in Lines(MaxTokens) : get_player_hand(card_strings)
    \/ \E card_input \in Tokens : get_dealer_card(card_input)
    \/ interactive_solve
    \/ analyze_another

SpecInput == Init /\ [][InputNext]_vars

(***************************************************************************)
(* solveAll: every two-card starting hand of a fresh deck                  *)
(***************************************************************************)
\* the list create_deck() returns: rank by rank, each rank in its four suits
RECURSIVE cards_from(_, _)
cards_from(the_deck, i) ==
    IF i > Len(ranks) THEN <<>>
    ELSE [k \in 1..Len(the_deck[ranks[i]]) |-> Card(ranks[i], the_deck[ranks[i]][k])]
         \o cards_from(the_deck, i + 1)

deck_list == cards_from(create_deck, 1)

\* the key of an entry: the unordered pair of the two cards
pair_key(first, second) == {first, second}

\* the pair after positions <<i, j>> (i < j) of a list of n cards, <<>> after the last
next_pair(pos, n) ==
    IF pos[2] < n THEN <<pos[1], pos[2] + 1>>
    ELSE IF pos[1] + 1 < n THEN <<pos[1] + 1, pos[1] + 2>>
    ELSE <<>>

\* solveAll starts on a fresh deck
solve_all_start ==
    /\ pair_index = <<>> /\ writes = 0
    /\ Len(deck_list) >= 2
    /\ pair_index' = <<1, 2>>
    /\ solutions' = <<>>
    /\ UNCHANGED <<writes, solver_vars, hand_vars, input_vars, exact_vars, stack, conc_vars>>

\* one starting hand is solved and entered under its pair
solve_all_step ==
    /\ pair_index # <<>>
    /\ LET first == deck_list[pair_index[1]]
           second == deck_list[pair_index[2]]
       IN solutions' = [key \in DOMAIN solutions \cup {pair_key(first, second)} |->
                           IF key = pair_key(first, second)
                           THEN [hand |-> <<first, second>>,
                                 suited |-> is_blackjack(<<first, second>>)[2]]
                           ELSE solutions[key]]
    /\ writes' = writes + 1
    /\ pair_index' = next_pair(pair_index, Len(deck_list))
    /\ UNCHANGED <<solver_vars, hand_vars, input_vars, exact_vars, stack, conc_vars>>

AllNext == solve_all_start \/ solve_all_step

SpecAll == Init /\ [][AllNext]_vars

(***************************************************************************)
(* The house-adversarial value function dealerValue                        *)
(***************************************************************************)
\* the cards a shoe gives for a rank: the first one still there
draw_from(shoe, rank) == Card(rank, Head(shoe[rank]))

\* the denominator of the values at a node: the falling product of the shoe
\* totals over the draws the dealer hand can still take
DealScale(dealer_hand, shoe) == Falling(len(shoe), LevelsLeft(dealer_hand))

\* the dealer must stop
dealer_stops(dealer_hand, shoe) ==
    is_bust(dealer_hand) \/ Len(dealer_hand) >= HandLimit \/ len(shoe) = 0

\* mutant: the house takes the action that is best for the player
house_choice_max(stand_value, hit_value) ==
    IF hit_value > stand_value THEN hit_value ELSE stand_value

\* min(standValue, hitValue)
house_choice(stand_value, hit_value) ==
    IF hit_value < stand_value THEN hit_value ELSE stand_value

\* dealerValue, as an integer over DealScale(dealer_hand, shoe).
\* dealer_value_from(.., i) is the sum of count[rank] * value over the ranks from
\* index i on; index 0 is the entry of the function.
RECURSIVE dealer_value_from(_, _, _, _)
dealer_value_from(player_hand, dealer_hand, shoe, i) ==
    IF i = 0
    THEN IF is_bust(player_hand) THEN -DealScale(dealer_hand, shoe)
         ELSE IF dealer_stops(dealer_hand, shoe)
         THEN stand_off_outcome(player_hand, dealer_hand) * DealScale(dealer_hand, shoe)
         ELSE house_choice(
                 stand_off_outcome(player_hand, dealer_hand) * DealScale(dealer_hand, shoe),
                 dealer_value_from(player_hand, dealer_hand, shoe, 1))
    ELSE IF i > Len(ranks) THEN 0
    ELSE (IF ranks[i] \in rank_counts(shoe)
          THEN Len(shoe[ranks[i]])
               * dealer_value_from(player_hand,
                                   Append(dealer_hand, draw_from(shoe, ranks[i])),
                                   new_remaining_of(shoe, ranks[i]), 0)
          ELSE 0)
         + dealer_value_from(player_hand, dealer_hand, shoe, i + 1)

dealerValue(player_hand, dealer_hand, shoe) ==
    dealer_value_from(player_hand, dealer_hand, shoe, 0)

\* the order in which ranks enter the hands the value function is called on
ExactSample == <<"K", "7", "A", "5", "10", "2", "9", "6", "Q", "3", "8", "4", "J">>

\* ranks of the player's and the dealer's starting cards
NumExactRanks == 2

\* cards of the finalized player hand
MaxPlayerCards == 3

RankIndex(rank) == CHOOSE i \in 1..Len(ranks) : ranks[i] = rank

\* the ranks that may follow a hand kept in canonical (sorted) order
ranks_after(hand, rank_set) ==
    IF hand = <<>> THEN rank_set
    ELSE {r \in rank_set : RankIndex(r) >= RankIndex(hand[Len(hand)].rank)}

\* n cards dealt from a shoe as a canonical hand, their ranks taken from rank_set
RECURSIVE Deals(_, _, _)
Deals(shoe, n, rank_set) ==
    IF n = 0 THEN {[hand |-> <<>>, shoe |-> shoe]}
    ELSE UNION {{[hand |-> Append(d.hand, draw_from(d.shoe, rank)),
                  shoe |-> new_remaining_of(d.shoe, rank)] :
                    rank \in ranks_after(d.hand, rank_set) \cap rank_counts(d.shoe)} :
                d \in Deals(shoe, n - 1, rank_set)}

Node(player_hand, dealer_hand, shoe) ==
    [player_hand |-> player_hand, dealer_hand |-> dealer_hand, shoe |-> shoe]

\* dealStart: a finalized player hand of the fresh deck meets a two-card dealer hand
deal_start(player, dealer) ==
    /\ node = <<>>
    /\ node' = <<Node(player.hand, dealer.hand, dealer.shoe)>>
    /\ returned' = <<>>
    /\ UNCHANGED <<solver_vars, hand_vars, input_vars, all_vars, stack, conc_vars>>

\* the recursive case draws a rank: the call on the hand with that card appended
dealer_hit(rank) ==
    /\ node # <<>> /\ returned = <<>>
    /\ ~is_bust(node[1].player_hand)
    /\ ~dealer_stops(node[1].dealer_hand, node[1].shoe)
    /\ rank \in rank_counts(node[1].shoe)
    /\ node' = <<Node(node[1].player_hand,
                      Append(node[1].dealer_hand, draw_from(node[1].shoe, rank)),
                      new_remaining_of(node[1].shoe, rank))>>
    /\ UNCHANGED <<returned, solver_vars, hand_vars, input_vars, all_vars, stack, conc_vars>>

\* the call returns its value
dealer_value_return ==
    /\ node # <<>> /\ returned = <<>>
    /\ returned' = <<dealerValue(node[1].player_hand, node[1].dealer_hand, node[1].shoe)>>
    /\ UNCHANGED <<node, solver_vars, hand_vars, input_vars, all_vars, stack, conc_vars>>

DealerValueNext ==
    \/ \E n \in 2..MaxPlayerCards :
         \E player \in Deals(create_deck, n, Prefix(ExactSample, NumExactRanks)) :
           \E dealer \in Deals(player.shoe, 2, Prefix(ExactSample, NumExactRanks)) :
              deal_start(player, dealer)
    \/ \E rank \in RankSet : dealer_hit(rank)
    \/ dealer_value_return

SpecDealerValue == Init /\ [][DealerValueNext]_vars

(***************************************************************************)
(* A run of solve_hand, loop iteration by loop iteration                   *)
(***************************************************************************)
\* `for rank, count in rank_counts.items()': the index of the first rank from
\* index i on that remaining_cards still holds, Len(ranks) + 1 when there is none
RECURSIVE next_rank_from(_, _)
next_rank_from(remaining_cards, i) ==
    IF i > Len(ranks) THEN Len(ranks) + 1
    ELSE IF ranks[i] \in rank_counts(remaining_cards) THEN i
    ELSE next_rank_from(remaining_cards, i + 1)

\* mutant: the loop does not move on to the next rank
rank_same(remaining_cards, i) == i

\* the loop moves on: the rank after the one at index i
rank_after(remaining_cards, i) == next_rank_from(remaining_cards, i + 1)

RunFrame(player_hand, remaining_cards, depth, at) ==
    [player_hand |-> player_hand, remaining_cards |-> remaining_cards,
     depth |-> depth, at |-> at]

RunTop == stack[Len(stack)]

\* the loop of the innermost call has a rank left
in_loop(f) == ~hit_base_case(f) /\ f.at <= Len(ranks)

\* the example hands solver.main() solves
RunRequests == SessionRequests

\* solve_hand is called
run_solve_hand(req) ==
    /\ request = <<>>
    /\ request' = <<req>>
    /\ IF returns_early(req.player_cards)
       THEN /\ stack' = <<>>
            /\ result' = <<solve_hand(deck, req.player_cards, req.dealer_upcard)>>
       ELSE /\ stack' = <<RunFrame(req.player_cards,
                                   get_remaining_cards(deck, known_cards_of(req.player_cards,
                                                                            req.dealer_upcard)),
                                   0,
                                   next_rank_from(
                                       get_remaining_cards(deck,
                                           known_cards_of(req.player_cards, req.dealer_upcard)),
                                       1))>>
            /\ result' = <<>>
    /\ deck' = deck_after_get_remaining(deck, known_cards_of(req.player_cards,
                                                             req.dealer_upcard))
    /\ UNCHANGED <<frames, drawn, dealer_frames, log, hand_vars,
                   input_vars, all_vars, exact_vars, conc_vars>>

\* the caller's frame once the iteration for the rank at its index is done
after_iteration(f) ==
    RunFrame(hand_after_iteration(f.player_hand, ranks[f.at]),
             remaining_after_iteration(f.remaining_cards, ranks[f.at]),
             f.depth,
             rank_after(f.remaining_cards, f.at))

\* the call the iteration makes on new_hand
called_on(f) ==
    RunFrame(new_hand_of(f.player_hand, ranks[f.at]),
             new_remaining_of(f.remaining_cards, ranks[f.at]),
             f.depth + 1,
             next_rank_from(new_remaining_of(f.remaining_cards, ranks[f.at]), 1))

\* one iteration of the loop of calculate_hit_ev: new_hand is bust or a five-card
\* hand and the loop goes on, or calculate_hit_ev is called on it
run_iteration ==
    /\ stack # <<>>
    /\ in_loop(RunTop)
    /\ stack' = IF hit_recurses(new_hand_of(RunTop.player_hand, ranks[RunTop.at]))
                THEN Append([stack EXCEPT ![Len(stack)] = after_iteration(RunTop)],
                            called_on(RunTop))
                ELSE [stack EXCEPT ![Len(stack)] = after_iteration(RunTop)]
    /\ UNCHANGED <<solver_vars, hand_vars, input_vars, all_vars, exact_vars, conc_vars>>

\* the innermost call returns: a base case, or its loop is over
run_return ==
    /\ Len(stack) > 1
    /\ ~in_loop(RunTop)
    /\ stack' = SubSeq(stack, 1, Len(stack) - 1)
    /\ UNCHANGED <<solver_vars, hand_vars, input_vars, all_vars, exact_vars, conc_vars>>

\* the outermost call of calculate_hit_ev returns
run_exit ==
    /\ Len(stack) = 1
    /\ ~in_loop(RunTop)
    /\ stack' = <<>>

\* the outermost call returns and solve_hand returns its result
run_finish ==
    /\ run_exit
    /\ result' = <<solve_hand(deck, request[1].player_cards, request[1].dealer_upcard)>>
    /\ UNCHANGED <<deck, request, frames, drawn, dealer_frames, log, hand_vars,
                   input_vars, all_vars, exact_vars, conc_vars>>

RunNext ==
    \/ \E req \in RunRequests : run_solve_hand(req)
    \/ run_iteration
    \/ run_return
    \/ run_finish

SpecRun == Init /\ [][RunNext]_vars

\* solve_hand is one sequential computation: it goes on while it has a step to take
SpecRunLive ==
    SpecRun /\ WF_vars(run_iteration) /\ WF_vars(run_return) /\ WF_stack(run_exit)

(***************************************************************************)
(* generate_basic_strategy_chart: one solver, every hand of the chart      *)
(* against every dealer upcard                                             *)
(***************************************************************************)
\* hard_hands, soft_hands and pair_hands, in the order they are solved
ChartHands ==
    [i \in 1..6 |-> <<Card("10", "S"), Card(<<"7", "6", "5", "4", "3", "2">>[i], "H")>>]
    \o [i \in 1..7 |-> <<Card("A", "S"), Card(<<"8", "7", "6", "5", "4", "3", "2">>[i], "H")>>]
    \o [i \in 1..5 |-> <<Card(<<"A", "10", "9", "8", "7">>[i], "S"),
                          Card(<<"A", "10", "9", "8", "7">>[i], "H")>>]

\* `for dealer_rank in [...]'
ChartUpcards == <<"2", "3", "4", "5", "6", "7", "8", "9", "10", "A">>

\* the cell the chart solves in k-th place: hand by hand, upcard by upcard
chart_request(k) ==
    Request(ChartHands[((k - 1) \div Len(ChartUpcards)) + 1],
            Card(ChartUpcards[((k - 1) % Len(ChartUpcards)) + 1], "C"))

\* result = solver.solve_hand(cards, dealer_card), for the next cell
chart_solve ==
    /\ Len(log) < Len(ChartHands) * Len(ChartUpcards)
    /\ log' = Append(log, [request |-> chart_request(Len(log) + 1),
                           result |-> solve_hand(deck,
                                                 chart_request(Len(log) + 1).player_cards,
                                                 chart_request(Len(log) + 1).dealer_upcard)])
    /\ deck' = deck_after_get_remaining(
                   deck, known_cards_of(chart_request(Len(log) + 1).player_cards,
                                        chart_request(Len(log) + 1).dealer_upcard))
    /\ UNCHANGED <<request, frames, drawn, dealer_frames, result, hand_vars, ext_vars>>

ChartNext == chart_solve

SpecChart == Init /\ [][ChartNext]_vars

(***************************************************************************)
(* Workers evaluating dealerValue over one shared memoization cache        *)
(***************************************************************************)
RECURSIVE insert_rank(_, _)
insert_rank(rank_seq, rank) ==
    IF rank_seq = <<>> THEN <<rank>>
    ELSE IF RankIndex(rank) <= RankIndex(Head(rank_seq)) THEN <<rank>> \o rank_seq
    ELSE <<Head(rank_seq)>> \o insert_rank(Tail(rank_seq), rank)

\* a hand as the sorted sequence of its ranks
RECURSIVE canonical_hand(_)
canonical_hand(hand) ==
    IF hand = <<>> THEN <<>>
    ELSE insert_rank(canonical_hand(Tail(hand)), Head(hand).rank)

\* the shoe as its count per rank
shoe_counts(shoe) == [rank \in RankSet |-> Len(shoe[rank])]

\* mutant: the key leaves out the suited-blackjack flag
cache_key_no_flag(n) ==
    [player_hand |-> canonical_hand(n.player_hand),
     suited |-> FALSE,
     dealer_hand |-> canonical_hand(n.dealer_hand),
     shoe |-> shoe_counts(n.shoe)]

\* the key of a cache entry: (canonical player hand, suited-blackjack flag,
\* canonical dealer hand, canonical shoe counts)
cache_key(n) ==
    [player_hand |-> canonical_hand(n.player_hand),
     suited |-> is_blackjack(n.player_hand)[2],
     dealer_hand |-> canonical_hand(n.dealer_hand),
     shoe |-> shoe_counts(n.shoe)]

\* the base case of dealerValue
node_stops(n) == is_bust(n.player_hand) \/ dealer_stops(n.dealer_hand, n.shoe)

\* the value of a call whose loop has summed hit_sum_done, as an integer over
\* DealScale of its dealer hand and shoe
node_value(n, hit_sum_done) ==
    IF is_bust(n.player_hand) THEN -DealScale(n.dealer_hand, n.shoe)
    ELSE IF dealer_stops(n.dealer_hand, n.shoe)
    THEN stand_off_outcome(n.player_hand, n.dealer_hand) * DealScale(n.dealer_hand, n.shoe)
    ELSE house_choice(
            stand_off_outcome(n.player_hand, n.dealer_hand) * DealScale(n.dealer_hand, n.shoe),
            hit_sum_done)

\* the state the dealer's draw of a rank leads to
child_of(n, rank) ==
    Node(n.player_hand, Append(n.dealer_hand, draw_from(n.shoe, rank)),
         new_remaining_of(n.shoe, rank))

\* a call in progress: its state, the index of the rank its loop is at
\* (Len(ranks) + 1: the value is computed and about to be stored) and the sum
\* so far
WorkFrame(n, at, acc) == [node |-> n, at |-> at, acc |-> acc]

\* a call that missed the cache starts to compute
entered(n) ==
    WorkFrame(n, IF node_stops(n) THEN Len(ranks) + 1 ELSE next_rank_from(n.shoe, 1), 0)

\* the caller once the call its loop made has given a value
value_returned(calls, value) ==
    [calls EXCEPT ![Len(calls)] =
        WorkFrame(calls[Len(calls)].node,
                  rank_after(calls[Len(calls)].node.shoe, calls[Len(calls)].at),
                  calls[Len(calls)].acc
                  + Len(calls[Len(calls)].node.shoe[ranks[calls[Len(calls)].at]]) * value)]

\* a state the solver reaches: the player's cards leave the fresh deck and the
\* dealer's cards are dealt rank by rank
RECURSIVE dealt(_, _)
dealt(n, dealer_ranks) ==
    IF dealer_ranks = <<>> THEN n
    ELSE dealt(child_of(n, Head(dealer_ranks)), Tail(dealer_ranks))

Task(player_hand, dealer_ranks) ==
    dealt(Node(player_hand, <<>>, get_remaining_cards(create_deck, player_hand)),
          dealer_ranks)

\* dealer states two solves meet at: the same state, the same ranks dealt in
\* another order, the same ranks with the player's blackjack unsuited, and a
\* dealer hand one card away
TaskSample ==
    <<Task(<<Card("A", "S"), Card("K", "S")>>, <<"2", "3", "4", "5">>),
      Task(<<Card("A", "S"), Card("K", "H")>>, <<"2", "3", "4", "5">>),
      Task(<<Card("K", "S"), Card("A", "S")>>, <<"5", "3", "2", "4">>),
      Task(<<Card("A", "S"), Card("K", "S")>>, <<"2", "3", "4", "6">>),
      Task(<<Card("7", "S"), Card("7", "H"), Card("7", "D")>>, <<"2", "3", "4", "5">>)>>

NumTasks == 4

Tasks == Prefix(TaskSample, NumTasks)

\* the cache with one more write
cache_with(entries, state_key, value) ==
    [k \in DOMAIN entries \cup {state_key} |->
        IF k = state_key THEN value ELSE entries[k]]

\* a worker is given a state to evaluate: the value is in the cache, or the
\* worker starts to compute it
worker_take(w, n) ==
    /\ workers[w] = <<>>
    /\ finished[w] = <<>>
    /\ IF cache_key(n) \in DOMAIN cache
       THEN /\ finished' = [finished EXCEPT ![w] = <<[task |-> n, value |-> cache[cache_key(n)]]>>]
            /\ UNCHANGED workers
       ELSE /\ workers' = [workers EXCEPT ![w] = <<entered(n)>>]
            /\ UNCHANGED finished
    /\ UNCHANGED <<cache, written, solver_vars, hand_vars,
                   input_vars, all_vars, exact_vars, stack>>

\* the loop of the innermost call reaches a rank: the value of the state the
\* draw leads to is read from the cache, or a call is made to compute it
worker_call(w) ==
    /\ workers[w] # <<>>
    /\ workers[w][Len(workers[w])].at <= Len(ranks)
    /\ workers' =
          [workers EXCEPT ![w] =
              IF cache_key(child_of(@[Len(@)].node, ranks[@[Len(@)].at])) \in DOMAIN cache
              THEN value_returned(
                      @, cache[cache_key(child_of(@[Len(@)].node, ranks[@[Len(@)].at]))])
              ELSE Append(@, entered(child_of(@[Len(@)].node, ranks[@[Len(@)].at])))]
    /\ UNCHANGED <<cache, written, finished, solver_vars, hand_vars,
                   input_vars, all_vars, exact_vars, stack>>

\* the innermost call has its value: it stores it under the key of its state
\* and returns it
worker_write(w) ==
    /\ workers[w] # <<>>
    /\ workers[w][Len(workers[w])].at > Len(ranks)
    /\ cache' = cache_with(cache, cache_key(workers[w][Len(workers[w])].node),
                           node_value(workers[w][Len(workers[w])].node,
                                      workers[w][Len(workers[w])].acc))
    /\ written' = written \cup
                    {[key |-> cache_key(workers[w][Len(workers[w])].node),
                      value |-> node_value(workers[w][Len(workers[w])].node,
                                           workers[w][Len(workers[w])].acc)]}
    /\ IF Len(workers[w]) = 1
       THEN /\ workers' = [workers EXCEPT ![w] = <<>>]
            /\ finished' = [finished EXCEPT ![w] =
                               <<[task |-> workers[w][1].node,
                                  value |-> node_value(workers[w][1].node,
                                                       workers[w][1].acc)]>>]
       ELSE /\ workers' =
                  [workers EXCEPT ![w] =
                      value_returned(SubSeq(@, 1, Len(@) - 1),
                                     node_value(@[Len(@)].node, @[Len(@)].acc))]
            /\ UNCHANGED finished
    /\ UNCHANGED <<solver_vars, hand_vars, input_vars, all_vars, exact_vars, stack>>

WorkersNext ==
    \E w \in Workers :
        \/ \E n \in Tasks : worker_take(w, n)
        \/ worker_call(w)
        \/ worker_write(w)

SpecWorkers == Init /\ [][WorkersNext]_vars

(***************************************************************************)
(* calculate_card_probabilities: the probability of drawing each rank, and *)
(* the weights of the dealer's two-card deals                              *)
(***************************************************************************)
\* the significand of a Python float (an IEEE 754 double), in bits
MantissaBits == 53

\* a float in [0, 2) is modelled exactly, as a fixed-point number: its integer
\* part and three limbs of LimbBits bits each for its binary fraction
LimbBits == 20

Limb == 2 ^ LimbBits

FixedBits == 3 * LimbBits

\* carries are passed up, so that every limb is below Limb
Float(int_part, high, mid, low) ==
    [int_part |-> int_part + (high + (mid + low \div Limb) \div Limb) \div Limb,
     high |-> (high + (mid + low \div Limb) \div Limb) % Limb,
     mid |-> (mid + low \div Limb) % Limb,
     low |-> low % Limb]

\* the place of the first 1 in the binary fraction of r / total, 0 < r < total
RECURSIVE leading_place(_, _, _)
leading_place(r, total, k) ==
    IF 2 * r >= total THEN k ELSE leading_place(2 * r, total, k + 1)

\* long division, a limb at a time: the next limb of r / total and what is left
next_limb(r, total) == (r * Limb) \div total

left_after(r, total) == (r * Limb) % total

\* round to nearest, ties to even, in the last limb: unit is the weight of the
\* last place of the significand, sticky whether anything follows the limb
round_to_nearest(low, unit, sticky) ==
    IF /\ (low \div (unit \div 2)) % 2 = 1
       /\ (sticky \/ low % (unit \div 2) # 0 \/ (low \div unit) % 2 = 1)
    THEN low - (low % unit) + unit
    ELSE low - (low % unit)

\* `count / total' on Python ints with 0 < count <= total: the double nearest
\* to the quotient
float_div(count, total) ==
    IF count = total THEN Float(1, 0, 0, 0)
    ELSE Float(0,
               next_limb(count, total),
               next_limb(left_after(count, total), total),
               round_to_nearest(
                   next_limb(left_after(left_after(count, total), total), total),
                   2 ^ (FixedBits - (leading_place(count, total, 1) + MantissaBits - 1)),
                   left_after(left_after(left_after(count, total), total), total) # 0))

\* the exact sum of two floats, no rounding
float_sum(x, y) ==
    Float(x.int_part + y.int_part, x.high + y.high, x.mid + y.mid, x.low + y.low)

\* the number a float stands for is exactly 1
is_one(x) == x = Float(1, 0, 0, 0)

\* {rank: count / total for rank, count in rank_counts.items()}, {} for no cards
calculate_card_probabilities(remaining_cards) ==
    [rank \in rank_counts(remaining_cards) |->
        float_div(Len(remaining_cards[rank]), len(remaining_cards))]

\* C(n, 2)
choose2(n) == (n * (n - 1)) \div 2

\* ways(pair): C(count[r], 2) for a same-rank pair, count[r1] * count[r2] for
\* distinct ranks
pair_ways(shoe, i, j) ==
    IF i = j THEN choose2(Len(shoe[ranks[i]]))
    ELSE Len(shoe[ranks[i]]) * Len(shoe[ranks[j]])

\* the unordered pairs of ranks the dealer could be dealt, as pairs of indices
dealer_pairs(shoe) ==
    {p \in (1..Len(ranks)) \X (1..Len(ranks)) :
        /\ p[1] <= p[2]
        /\ IF p[1] = p[2] THEN Len(shoe[ranks[p[1]]]) >= 2
           ELSE Len(shoe[ranks[p[1]]]) >= 1 /\ Len(shoe[ranks[p[2]]]) >= 1}

\* the weight dealStart gives every pair, over C(totalRemaining, 2)
deal_weights(shoe) == [p \in dealer_pairs(shoe) |-> pair_ways(shoe, p[1], p[2])]

\* ranks of the cards that have left the deck
NumKnownRanks == 3

\* how many cards have left the deck
MaxKnown == 8

\* known cards: of each rank the first so many suits, rank after rank
RECURSIVE known_cards_from(_, _)
known_cards_from(taken, i) ==
    IF i > Len(ranks) THEN <<>>
    ELSE [k \in 1..taken[ranks[i]] |-> Card(ranks[i], suits[k])]
         \o known_cards_from(taken, i + 1)

\* how many cards of each rank have left the deck: none of a rank outside the
\* first NumKnownRanks of ExactSample, at most MaxKnown in all
KnownCounts ==
    {taken \in {[rank \in RankSet |-> IF rank \in DOMAIN some THEN some[rank] ELSE 0] :
                    some \in [Prefix(ExactSample, NumKnownRanks) -> 0..Len(suits)]} :
        Len(known_cards_from(taken, 1)) <= MaxKnown}

\* remaining = get_remaining_cards(known_cards)
take_known(known) ==
    /\ node = <<>>
    /\ node' = <<[known_cards |-> known, shoe |-> get_remaining_cards(deck, known)]>>
    /\ UNCHANGED <<returned, solver_vars, hand_vars, input_vars, all_vars, stack, conc_vars>>

\* the draw weights of the remaining cards are worked out
weigh_draws ==
    /\ node # <<>> /\ returned = <<>>
    /\ returned' = <<[deal_weights |-> deal_weights(node[1].shoe),
                      probabilities |-> calculate_card_probabilities(node[1].shoe)]>>
    /\ UNCHANGED <<node, solver_vars, hand_vars, input_vars, all_vars, stack, conc_vars>>

DealNext ==
    \/ \E taken \in KnownCounts : take_known(known_cards_from(taken, 1))
    \/ weigh_draws

SpecDeal == Init /\ [][DealNext]_vars

(***************************************************************************)
(* Properties                                                              *)
(***************************************************************************)
\* the dealer's hand while a player hand is solved: the upcard
upcard_hand == <<request[1].dealer_upcard>>

\* every (player hand, dealer hand, remaining cards) the recursion holds in this
\* state: the active calls and the hand and cards the last loop iteration made
Positions ==
    {[player |-> frames[i].player_hand, dealer |-> upcard_hand,
      shoe |-> frames[i].remaining_cards] : i \in 1..Len(frames)}
    \cup {[player |-> request[1].player_cards, dealer |-> dealer_frames[i].dealer_hand,
           shoe |-> dealer_frames[i].remaining_cards] : i \in 1..Len(dealer_frames)}
    \cup {[player |-> IF frames # <<>> THEN drawn[i].new_hand ELSE request[1].player_cards,
           dealer |-> IF frames # <<>> THEN upcard_hand ELSE drawn[i].new_hand,
           shoe |-> drawn[i].new_remaining] : i \in 1..Len(drawn)}

\* C1: in every state of a solve on a legal two-card hand - after any player
\* hits, with the dealer's hand dealt and after any dealer hits - the remaining
\* cards, the player's hand and the dealer's hand add up to the 52 cards
C1_ShoeInvariant ==
    \A p \in Positions : len(p.shoe) + Len(p.player) + Len(p.dealer) = 52

\* the player has hit three times: a five-card hand has just been made
C1_Witness ==
    /\ Len(frames) = 3
    /\ drawn # <<>>
    /\ Len(drawn[1].new_hand) = 5

\* the totals the ace rule describes: every non-ace at its fixed value and each
\* ace, independently, at any value its hand size allows
stated_ace_values(num_cards) ==
    IF num_cards <= 2 THEN {1, 10, 11}
    ELSE IF num_cards = 3 THEN {1, 10}
    ELSE {1}

RECURSIVE ace_sums(_, _)
ace_sums(aces, values) ==
    IF aces = 0 THEN {0}
    ELSE {a + v : a \in ace_sums(aces - 1, values), v \in values}

fixed_value(card) ==
    IF card.rank = "A" THEN 0
    ELSE IF card.rank \in {"10", "J", "Q", "K"} THEN 10
    ELSE IntOfRank[card.rank]

fixed_total(hand) == SumSeq([i \in 1..Len(hand) |-> fixed_value(hand[i])])

aces_in(hand) == Cardinality({i \in 1..Len(hand) : hand[i].rank = "A"})

stated_totals(hand) ==
    {fixed_total(hand) + a : a \in ace_sums(aces_in(hand), stated_ace_values(Len(hand)))}

\* C2: for every hand of 0 to 5 cards the possible values are exactly the sums
\* with each ace at any of {1,10,11} (at most 2 cards), {1,10} (3 cards) or
\* {1} (4 or more cards), independently for each ace
C2_AceRule ==
    evaluated # <<>> => SeqToSet(evaluated[1].possible_values) = stated_totals(cards)

\* C3: the best value is the largest possible value that is at most 21 and,
\* when there is none, the smallest possible value
C3_BestTotal ==
    evaluated # <<>> =>
        LET totals == SeqToSet(evaluated[1].possible_values)
            best == evaluated[1].best_value
        IN /\ best \in totals
           /\ IF \E v \in totals : v <= 21
              THEN best <= 21 /\ \A v \in totals : v <= 21 => v <= best
              ELSE \A v \in totals : best <= v

\* a hand with values on both sides of 21 has been evaluated
C3_Witness ==
    /\ evaluated # <<>>
    /\ \E v \in SeqToSet(evaluated[1].possible_values) : v > 21
    /\ \E v \in SeqToSet(evaluated[1].possible_values) : v <= 21

\* C4: a hand is bust exactly when every possible value exceeds 21; a hand of
\* four or more cards is judged with each ace worth 1
C4_Bust ==
    evaluated # <<>> =>
        /\ evaluated[1].bust <=> \A v \in SeqToSet(evaluated[1].possible_values) : v > 21
        /\ Len(cards) >= 4 => (evaluated[1].bust <=> fixed_total(cards) + aces_in(cards) > 21)

\* a four-card hand with an ace has been found bust
C4_Witness ==
    /\ evaluated # <<>>
    /\ Len(cards) = 4
    /\ aces_in(cards) > 0
    /\ evaluated[1].bust

\* the multiplier of a hand that is not bust, as stated
stated_multiplier(hand) ==
    IF Len(hand) = 3 /\ \A i \in 1..3 : hand[i].rank = "7" THEN 7
    ELSE IF Len(hand) = 2 /\ aces_in(hand) = 2 THEN 3
    ELSE IF /\ Len(hand) = 2
            /\ aces_in(hand) = 1
            /\ \E i \in 1..2 : hand[i].rank \in {"10", "J", "Q", "K"}
    THEN (IF hand[1].suit = hand[2].suit THEN 3 ELSE 2)
    ELSE IF Len(hand) = 5 THEN 2
    ELSE 1

\* C5: a hand that is not bust pays 7 for three sevens, 3 for two aces, 3
\* (suited) or 2 for an ace with a ten-value card, 2 for five cards, else 1
C5_Multiplier ==
    (evaluated # <<>> /\ ~evaluated[1].bust) =>
        evaluated[1].payout_multiplier = stated_multiplier(cards)

\* a suited ace and ten-value card have been paid 3
C5_Witness ==
    /\ evaluated # <<>>
    /\ Len(cards) = 2
    /\ aces_in(cards) = 1
    /\ cards[1].suit = cards[2].suit
    /\ evaluated[1].payout_multiplier = 3

\* the cards that remain when both compared hands are known
compared_remaining == get_remaining_cards(deck, cards \o dealer_cards)

\* C6: a busted player hand loses and is worth exactly -1, whatever the dealer
\* hand (busted or not) and the remaining cards
C6_PlayerBustLoses ==
    (evaluated # <<>> /\ is_bust(cards)) =>
        /\ evaluated[1].outcome = "lose"
        /\ evaluated[1].payout = -1
        /\ dealer_cards # <<>> =>
            /\ calculate_stand_ev(cards, dealer_cards[1], compared_remaining) = -EvUnit
            /\ calculate_hit_ev(cards, dealer_cards[1], compared_remaining, 0)
                   = -EvScale(cards, compared_remaining)

\* both hands are bust and have been compared
C6_Witness ==
    /\ evaluated # <<>>
    /\ is_bust(cards)
    /\ is_bust(dealer_cards)

\* C7: a player hand that is not bust is paid its multiplier when the dealer is
\* bust or the player's best value is higher, 0 on equal best values, and -1
\* when the dealer's best value is higher
C7_StandOff ==
    (evaluated # <<>> /\ ~is_bust(cards)) =>
        evaluated[1].payout =
            IF is_bust(dealer_cards) THEN get_payout_multiplier(cards)
            ELSE IF get_best_value(cards) > get_best_value(dealer_cards)
            THEN get_payout_multiplier(cards)
            ELSE IF get_best_value(cards) = get_best_value(dealer_cards) THEN 0
            ELSE -1

\* equal best values of two-card hands have been compared: a push
C7_Witness ==
    /\ evaluated # <<>>
    /\ Len(cards) = 2 /\ Len(dealer_cards) = 2
    /\ ~is_bust(cards) /\ ~is_bust(dealer_cards)
    /\ get_best_value(cards) = get_best_value(dealer_cards)
    /\ evaluated[1].payout = 0

\* 1.0 in the unit of the rounded results
RoundedUnit == Digits(1, 0, 1, RoundDigits)[1]

\* C8: every expected value solve_hand returns for a legal two-card hand lies
\* in [-1, 7]
C8_EvRange ==
    result # <<>> =>
        \A ev \in {result[1].stand_ev, result[1].hit_ev, result[1].best_ev} :
            -RoundedUnit <= ev /\ ev <= 7 * RoundedUnit

\* the recursion has run and a negative expected value has been returned
C8_Witness ==
    /\ result # <<>>
    /\ ~returns_early(request[1].player_cards)
    /\ result[1].best_ev < 0

\* C9: the action is 'hit' exactly when the hit value exceeds the stand value
\* and 'stand' otherwise, and the expected value returned is that of the action
C9_Action ==
    result # <<>> =>
        /\ result[1].optimal_action \in {"hit", "stand"}
        /\ result[1].optimal_action = "hit" <=> result[1].hit_ev > result[1].stand_ev
        /\ result[1].best_ev = IF result[1].optimal_action = "hit"
                               THEN result[1].hit_ev ELSE result[1].stand_ev

\* a hand has been solved to 'hit'
C9_Witness ==
    /\ result # <<>>
    /\ result[1].optimal_action = "hit"
    /\ result[1].best_ev = result[1].hit_ev

well_formed(card_str) ==
    /\ Len(card_str) >= 2
    /\ upper(card_str[Len(card_str)]) \in {"S", "H", "D", "C"}
    /\ join([i \in 1..(Len(card_str) - 1) |-> upper(card_str[i])]) \in
           {"A", "2", "3", "4", "5", "6", "7", "8", "9", "10", "J", "Q", "K"}

\* C11: a solve returns a result only for an input of exactly two distinct
\* cards whose rank and suit tokens are all valid; any other input fails
\* before a result is made
C11_InvalidInput ==
    (result # <<>> /\ input_cards # <<>>) =>
        /\ Len(input_line) = 2
        /\ \A i \in 1..Len(input_line) : well_formed(input_line[i])
        /\ input_cards[1][1] # input_cards[1][2]

\* solveAll has returned
solve_all_done == pair_index = <<>> /\ writes > 0

\* C12: solveAll returns exactly 1326 entries, one for each unordered pair of
\* distinct cards of the 52-card deck, none missing and none entered twice
C12_SolveAll ==
    /\ writes = Cardinality(DOMAIN solutions)
    /\ solve_all_done =>
        /\ Cardinality(DOMAIN solutions) = 1326
        /\ DOMAIN solutions =
               {{Card(r1, s1), Card(r2, s2)} :
                    r1 \in {"A", "2", "3", "4", "5", "6", "7", "8", "9", "10", "J", "Q", "K"},
                    s1 \in {"S", "H", "D", "C"},
                    r2 \in {"A", "2", "3", "4", "5", "6", "7", "8", "9", "10", "J", "Q", "K"},
                    s2 \in {"S", "H", "D", "C"}}
               \ {{Card(r, s)} : r \in RankSet, s \in SuitSet}

\* solveAll has returned its mapping
C12_Witness == solve_all_done /\ solutions # <<>>

\* the count-weighted sum of the values of the calls one dealer hit leads to,
\* over the same denominator as the value of the node itself
RECURSIVE hit_sum(_, _)
hit_sum(n, rank_set) ==
    IF rank_set = {} THEN 0
    ELSE LET rank == CHOOSE r \in rank_set : TRUE
         IN Len(n.shoe[rank])
            * dealerValue(n.player_hand, Append(n.dealer_hand, draw_from(n.shoe, rank)),
                          new_remaining_of(n.shoe, rank))
            + hit_sum(n, rank_set \ {rank})

stand_value(n) ==
    stand_off_outcome(n.player_hand, n.dealer_hand) * DealScale(n.dealer_hand, n.shoe)

\* C13: where the player is not bust and the dealer is not forced to stop,
\* dealerValue returns the smaller of the stand-off outcome and the
\* count-weighted average over the ranks still in the shoe, so it never
\* exceeds the stand-off outcome of the current hands
C13_DealerMin ==
    (/\ returned # <<>>
     /\ ~is_bust(node[1].player_hand)
     /\ ~dealer_stops(node[1].dealer_hand, node[1].shoe)) =>
        /\ returned[1] <= stand_value(node[1])
        /\ returned[1] <= hit_sum(node[1], rank_counts(node[1].shoe))
        /\ returned[1] \in {stand_value(node[1]), hit_sum(node[1], rank_counts(node[1].shoe))}

\* a call returned the value of hitting, below the stand-off outcome a standing
\* dealer would have given
C13_Witness ==
    /\ returned # <<>>
    /\ ~is_bust(node[1].player_hand)
    /\ ~dealer_stops(node[1].dealer_hand, node[1].shoe)
    /\ returned[1] < stand_value(node[1])
    /\ stand_off_outcome(node[1].player_hand, node[1].dealer_hand) > 0

\* the hand the last loop iteration made was neither bust nor a five-card hand:
\* calculate_hit_ev has just been called on it
may_act == frames # <<>> /\ drawn # <<>> /\ Top.player_hand = drawn[1].new_hand

\* C14: where the player may still act (hand not bust, fewer than 5 cards),
\* the value taken for the hand is the larger of the value of standing and
\* the value of hitting, so it is never below the value of standing at once;
\* the value solve_hand returns is never below the stand value it returns
C14_PlayerMax ==
    /\ may_act =>
        LET stand_now == calculate_stand_ev(Top.player_hand, upcard_hand[1],
                                            Top.remaining_cards)
                         * Falling(len(Top.remaining_cards), LevelsLeft(Top.player_hand))
            hit_now == calculate_hit_ev(Top.player_hand, upcard_hand[1],
                                        Top.remaining_cards, Top.depth)
            taken == branch_value(Top.player_hand, upcard_hand[1],
                                  Top.remaining_cards, Top.depth - 1)
        IN /\ taken >= stand_now
           /\ taken >= hit_now
           /\ taken \in {stand_now, hit_now}
    /\ result # <<>> => result[1].best_ev >= result[1].stand_ev

\* a hand that may act is worth more by standing than by hitting again
C14_Witness ==
    /\ may_act
    /\ Len(Top.player_hand) = 3
    /\ calculate_stand_ev(Top.player_hand, upcard_hand[1], Top.remaining_cards)
           * Falling(len(Top.remaining_cards), LevelsLeft(Top.player_hand))
       > calculate_hit_ev(Top.player_hand, upcard_hand[1], Top.remaining_cards, Top.depth)

\* C15: in every state reached from a two-card starting hand neither the
\* player's nor the dealer's hand holds more than 5 cards, the hand a hit has
\* just made included: no hand of 5 cards takes a hit
C15_HandLimit ==
    \A p \in Positions : Len(p.player) <= 5 /\ Len(p.dealer) <= 5

\* a dealer hand of five cards that is neither bust nor at 17 is not played on
C15_Witness ==
    /\ dealer_frames # <<>>
    /\ Len(DealerTop.dealer_hand) = 5
    /\ ~is_bust(DealerTop.dealer_hand)
    /\ get_best_value(DealerTop.dealer_hand) < DealerStands

\* C16: the suited-blackjack flag is true only for a hand of exactly two cards
\* of one suit, an Ace and a ten-value card; once a card has been added the
\* flag is false, for that hand and every longer one, and no hand of 3 or
\* more cards is paid the suited 3x rate
C16_SuitedFlag ==
    evaluated # <<>> =>
        /\ evaluated[1].blackjack[2] =>
              /\ Len(cards) = 2
              /\ cards[1].suit = cards[2].suit
              /\ aces_in(cards) = 1
              /\ \E i \in 1..2 : cards[i].rank \in {"10", "J", "Q", "K"}
        /\ Len(cards) >= 3 =>
              /\ evaluated[1].blackjack = <<FALSE, FALSE>>
              /\ evaluated[1].payout_multiplier # 3

\* a suited Ace and ten-value card have taken a third card
C16_Witness ==
    /\ evaluated # <<>>
    /\ Len(cards) = 3
    /\ is_blackjack(SubSeq(cards, 1, 2)) = <<TRUE, TRUE>>
    /\ ~evaluated[1].blackjack[2]

\* every call on the stack was made by the call under it on a hand one card
\* longer, with one card fewer left in the remaining cards
one_card_per_call ==
    \A i \in 2..Len(stack) :
        /\ Len(stack[i].player_hand) = Len(stack[i - 1].player_hand) + 1
        /\ len(stack[i].remaining_cards) = len(stack[i - 1].remaining_cards) - 1
        /\ stack[i].depth = stack[i - 1].depth + 1

\* C17: the recursion solve_hand starts on a legal two-card hand terminates:
\* every recursive call takes one card from the remaining cards and adds it
\* to the hand, every call that is made returns, and solve_hand returns its
\* result
C17_Terminates ==
    /\ [](one_card_per_call)
    /\ (request # <<>>) ~> (result # <<>> /\ stack = <<>>)

\* the recursion has run and solve_hand has returned
C17_Witness ==
    /\ request # <<>>
    /\ ~returns_early(request[1].player_cards)
    /\ result # <<>>
    /\ stack = <<>>

\* the calls below the innermost one are as they were a step ago
callers_kept(before, after) ==
    \A i \in 1..Len(before) : i <= Len(after) => after[i] = before[i]

C20_BlindDealer ==
    \A i, j \in 1..Len(log) :
        log[i].request.player_cards = log[j].request.player_cards =>
            /\ log[i].result.optimal_action = log[j].result.optimal_action
            /\ log[i].result.best_ev = log[j].result.best_ev

\* C18: with several workers evaluating over one shared cache, any two
\* writes for the same state key carry the same value, an entry never changes
\* once it is written, and the value every worker gets for its state is the
\* value the recursion gives for that state on its own, without a cache
C18_SharedCache ==
    /\ [](\A a, b \in written : a.key = b.key => a.value = b.value)
    /\ [][\A k \in DOMAIN cache : k \in DOMAIN cache' /\ cache'[k] = cache[k]]_vars
    /\ [](\A w \in Workers :
             finished[w] # <<>> =>
                 finished[w][1].value
                 = dealerValue(finished[w][1].task.player_hand,
                               finished[w][1].task.dealer_hand,
                               finished[w][1].task.shoe))

\* a worker has the value of a state ready to store under a key another
\* worker has stored in the meantime, after a worker finished another task
C18_Witness ==
    \E v, w \in Workers :
        /\ finished[v] # <<>>
        /\ workers[w] # <<>>
        /\ workers[w][Len(workers[w])].at > Len(ranks)
        /\ cache_key(workers[w][Len(workers[w])].node) \in DOMAIN cache
        /\ finished[v][1].task # workers[w][1].node

\* the sum of the weights of the pairs from <<i, j>> on in the row of i
RECURSIVE row_weight(_, _, _)
row_weight(weights, i, j) ==
    IF j > Len(ranks) THEN 0
    ELSE (IF <<i, j>> \in DOMAIN weights THEN weights[<<i, j>>] ELSE 0)
         + row_weight(weights, i, j + 1)

RECURSIVE weight_from(_, _)
weight_from(weights, i) ==
    IF i > Len(ranks) THEN 0
    ELSE row_weight(weights, i, i) + weight_from(weights, i + 1)

\* the exact sum of the probabilities of the ranks from index i on
RECURSIVE probability_from(_, _)
probability_from(probabilities, i) ==
    IF i > Len(ranks) THEN Float(0, 0, 0, 0)
    ELSE IF ranks[i] \in DOMAIN probabilities
    THEN float_sum(probabilities[ranks[i]], probability_from(probabilities, i + 1))
    ELSE probability_from(probabilities, i + 1)

\* C21: for every shoe of at least 2 cards the weights of the unordered dealer
\* rank pairs sum to C(totalRemaining, 2), and for every non-empty shoe the
\* counts per rank sum to totalRemaining and the draw probabilities
\* count / totalRemaining sum to exactly 1
C21_DrawWeights ==
    returned # <<>> =>
        /\ len(node[1].shoe) >= 2 =>
              weight_from(returned[1].deal_weights, 1) = choose2(len(node[1].shoe))
        /\ len(node[1].shoe) >= 1 =>
              /\ CountFrom(node[1].shoe, 1) = len(node[1].shoe)
              /\ is_one(probability_from(returned[1].probabilities, 1))

\* the fewest cards the claim allows in the shoe: the deck without a full
\* player hand and a full dealer hand
fewest_cards == len(create_deck) - 2 * HandLimit

\* C22: in every state of a solve of a legal two-card hand every shoe the
\* recursion holds has at least 42 cards, so no call of the player's or the
\* dealer's recursion returns because the shoe is empty, and the dealer's
\* hand never starts from a shoe of fewer than 2 cards
C22_ShoeNotEmpty ==
    request # <<>> =>
        /\ \A p \in Positions : len(p.shoe) >= fewest_cards
        /\ \A i \in 1..Len(frames) :
              /\ len(frames[i].remaining_cards) # 0
              /\ hit_base_case(frames[i]) =>
                    \/ is_bust(frames[i].player_hand)
                    \/ Len(frames[i].player_hand) >= HandLimit
                    \/ frames[i].depth > DepthLimit
        /\ \A i \in 1..Len(dealer_frames) :
              /\ len(dealer_frames[i].remaining_cards) # 0
              /\ Len(dealer_frames[i].dealer_hand) < 2 =>
                    len(dealer_frames[i].remaining_cards) >= 2
              /\ dealer_base_case(dealer_frames[i]) =>
                    \/ is_bust(dealer_frames[i].dealer_hand)
                    \/ Len(dealer_frames[i].dealer_hand) >= HandLimit
                    \/ get_best_value(dealer_frames[i].dealer_hand) >= DealerStands

\* a dealer's call has returned on a full hand, with the fewest cards a solve
\* leaves in the shoe: every card of the deck but the player's and the dealer's
C22_Witness ==
    /\ request # <<>> /\ dealer_frames # <<>>
    /\ dealer_base_case(DealerTop)
    /\ Len(DealerTop.dealer_hand) = HandLimit
    /\ len(DealerTop.remaining_cards)
          = len(create_deck) - Len(request[1].player_cards) - HandLimit

====
